---------------------------- MODULE Spec2Model ----------------------------
(***************************************************************************)
(* Client-side view of a TrainJob: TrainerClient.get_job reconciles the    *)
(* TrainJob resource's conditions with the phases of its Pods, and         *)
(* TrainerClient.wait_for_job_status blocks on a Pod watch until the       *)
(* reconciled status reaches a target set.                                 *)
(*                                                                         *)
(* Strings the code inspects by content (step names, role labels, the      *)
(* job-completion-index label) are sequences of one-character strings, so  *)
(* that formatting, parsing and startswith are computed, not assumed.      *)
(* Strings the code only compares for equality are TLA+ strings.           *)
(***************************************************************************)
EXTENDS Integers, Sequences, FiniteSets, TLC

(* ------------------------------ bounds -------------------------------- *)

\* Largest number of Pods a listing of the job's Pods returns.
MaxPods == 2

\* Largest node count a TrainJob or its runtime declares.
MaxNodes == 2

\* Largest number of watch events a Pod watch delivers before it ends.
MaxEvents == 2

\* Most lines a container writes to its log when Pod listings vary.
ShortLog == 1

\* Most lines the followed container writes: one more than a batch.
MaxLines == 51

\* Largest size of a worker's queue.
MaxCapacity == 2

(* ----------------------------- constants ------------------------------ *)

\* for _ in range(50): lines taken from one queue in one pass.
BatchSize == 50

TRAINJOB_CREATED == "Created"

TRAINJOB_RUNNING == "Running"

TRAINJOB_COMPLETE == "Complete"

TRAINJOB_FAILED == "Failed"

DATASET_INITIALIZER ==
    <<"d","a","t","a","s","e","t","-","i","n","i","t","i","a","l","i","z","e","r">>

MODEL_INITIALIZER ==
    <<"m","o","d","e","l","-","i","n","i","t","i","a","l","i","z","e","r">>

LAUNCHER == <<"l","a","u","n","c","h","e","r">>

NODE == <<"n","o","d","e">>

POD_PENDING == "Pending"

\* The values of the replicated-job label the Pod selector admits.
POD_LABEL_SELECTOR == {DATASET_INITIALIZER, MODEL_INITIALIZER, LAUNCHER, NODE}

\* The phases a Pod reports.
PodPhases == {"Pending", "Running", "Succeeded", "Failed", "Unknown"}

\* The statuses wait_for_job_status accepts.
job_statuses ==
    {TRAINJOB_CREATED, TRAINJOB_RUNNING, TRAINJOB_COMPLETE, TRAINJOB_FAILED}

(* -------------------------- string helpers ---------------------------- *)

\* str.startswith
StartsWith(s, prefix) ==
    /\ Len(s) >= Len(prefix)
    /\ SubSeq(s, 1, Len(prefix)) = prefix

DigitChars == <<"0","1","2","3","4","5","6","7","8","9">>

\* str(i) of a natural number, as the f-string "{role}-{index}" prints it.
RECURSIVE IntToStr(_)
IntToStr(i) ==
    IF i < 10 THEN <<DigitChars[i + 1]>>
    ELSE IntToStr(i \div 10) \o <<DigitChars[(i % 10) + 1]>>

DigitValue(ch) == (CHOOSE k \in 1..10 : DigitChars[k] = ch) - 1

\* int(label) of a decimal label.
RECURSIVE StrToInt(_)
StrToInt(s) ==
    IF Len(s) = 1 THEN DigitValue(s[1])
    ELSE 10 * StrToInt(SubSeq(s, 1, Len(s) - 1)) + DigitValue(s[Len(s)])

(* ------------------------------- state -------------------------------- *)

VARIABLES
    crdStatus,        \* TrainJob .status: [present, conditions]
    specNumNodes,     \* TrainJob .spec.trainer.num_nodes, 0 when unset
    runtimeNumNodes,  \* the referenced runtime's trainer.num_nodes
    pods,             \* the Pods a listing returns, in listing order
    job,              \* what the last get_job call returned or raised
    apiFault,         \* how the API answered that call's reads
    seenRunning,      \* an earlier get_job call returned a Running job
    fresh,            \* nothing changed in the cluster since that call
    wpc,              \* where the wait_for_job_status call stands
    target,           \* its status argument
    watch,            \* its Pod watch: "none", "open" or "stopped"
    pending,          \* Pod events the watch stream holds undelivered
    ended,            \* the watch stream ran to its end (timeout elapsed)
    streamError,      \* what the watch stream raised, "none" if nothing
    fetched,          \* what each re-fetch gave: a status, or the error raised
    result,           \* the Job it returned
    lpc,              \* where the get_job_logs call stands
    largs,            \* its arguments: [step, node_rank, follow]
    pod_name,         \* the Pod it selected, 0 for None
    reads,            \* the static log reads it made: [pod, container]
    logs_dict,        \* its result: key -> transcript
    containerLines,   \* lines the node container writes before its log ends
    capacity,         \* size of each worker's queue
    produced,         \* per live stream: items its worker has put so far
    queue,            \* per live stream: the worker's queue
    finished,         \* per live stream: the loop's finished flag
    poll_index,       \* the stream the polling loop is at
    taken,            \* lines taken from that stream in this pass
    lastGet           \* the last get of the polling loop: stream and outcome

clusterVars == <<crdStatus, specNumNodes, runtimeNumNodes, pods>>

waitVars == <<wpc, target, watch, pending, ended, streamError, fetched, result>>

logVars == <<lpc, largs, pod_name, reads, logs_dict,
             containerLines, capacity, produced, queue, finished,
             poll_index, taken, lastGet>>

vars == <<crdStatus, specNumNodes, runtimeNumNodes, pods, job, apiFault, seenRunning, fresh,
          wpc, target, watch, pending, ended, streamError, fetched, result,
          lpc, largs, pod_name, reads, logs_dict,
          containerLines, capacity, produced, queue, finished,
          poll_index, taken, lastGet>>

\* No get_job call has been made yet.
NoJob == [outcome |-> "none"]

\* No get_job_logs call has been made yet.
LogIdle ==
    /\ lpc = "idle"
    /\ largs = <<>>
    /\ pod_name = 0
    /\ reads = <<>>
    /\ logs_dict = <<>>
    /\ capacity = 0
    /\ produced = <<>>
    /\ queue = <<>>
    /\ finished = <<>>
    /\ poll_index = 0
    /\ taken = 0
    /\ lastGet = [index |-> 0, got |-> "none"]

(* --------------------------- step classifier -------------------------- *)

\* Pod phase to step status.
StepStatus(phase) ==
    CASE phase = "Pending" -> "Pending"
      [] phase = "Running" -> "Running"
      [] phase = "Succeeded" -> "Complete"
      [] phase = "Failed" -> "Failed"
      [] OTHER -> "Unknown"

get_trainjob_initializer_step(pod) ==
    [name |-> pod.rjob_name,
     pod_name |-> pod.name,
     status |-> StepStatus(pod.phase)]

get_trainjob_node_step(pod, rjob_name, index) ==
    [name |-> rjob_name \o <<"-">> \o IntToStr(index),
     pod_name |-> pod.name,
     status |-> StepStatus(pod.phase)]

\* What a listed Pod may lack.
PodParts == {"metadata", "name", "labels", "spec"}

PodIsValid_NoSpec(pod) ==
    /\ "metadata" \notin pod.lacks
    /\ "name" \notin pod.lacks
    /\ "labels" \notin pod.lacks

\* pod.metadata and pod.metadata.name and pod.metadata.labels and pod.spec
PodIsValid(pod) ==
    /\ "metadata" \notin pod.lacks
    /\ "name" \notin pod.lacks
    /\ "labels" \notin pod.lacks
    /\ "spec" \notin pod.lacks

\* Whether the loop over pod_list.items builds a step from the Pod.
IsClassified(pod) ==
    \/ pod.rjob_name \in {DATASET_INITIALIZER, MODEL_INITIALIZER}
    \/ pod.rjob_name \in {LAUNCHER, NODE}

StepOfPod_AlwaysIndexed(pod) ==
    get_trainjob_node_step(pod, pod.rjob_name, StrToInt(pod.job_index))

\* The step appended for one classified Pod.
StepOfPod(pod) ==
    IF pod.rjob_name \in {DATASET_INITIALIZER, MODEL_INITIALIZER}
    THEN get_trainjob_initializer_step(pod)
    ELSE get_trainjob_node_step(pod, pod.rjob_name, StrToInt(pod.job_index))

\* The loop over pod_list.items: one step per classified Pod, in order.
StepsOfPods(podList) ==
    LET classified == SelectSeq(podList, IsClassified)
    IN  [i \in DOMAIN classified |-> StepOfPod(classified[i])]

(* -------------------------- job reconciler ---------------------------- *)

\* num_nodes: taken from the TrainJob, else from the runtime.
NumNodes(specNodes, runtimeNodes) ==
    IF specNodes # 0 THEN specNodes ELSE runtimeNodes

\* Mutant of StatusFromConditions: the elif branch for Failed is missing.
RECURSIVE StatusFromConditions_NoFailed(_, _)
StatusFromConditions_NoFailed(conditions, status) ==
    IF conditions = <<>> THEN status
    ELSE LET c == Head(conditions)
         IN  StatusFromConditions_NoFailed(
                 Tail(conditions),
                 IF c.type = TRAINJOB_COMPLETE /\ c.status = "True" THEN c.type
                 ELSE status)

\* The loop over status.conditions: every true terminal condition assigns.
RECURSIVE StatusFromConditions(_, _)
StatusFromConditions(conditions, status) ==
    IF conditions = <<>> THEN status
    ELSE LET c == Head(conditions)
         IN  StatusFromConditions(
                 Tail(conditions),
                 IF c.type = TRAINJOB_COMPLETE /\ c.status = "True" THEN c.type
                 ELSE IF c.type = TRAINJOB_FAILED /\ c.status = "True" THEN c.type
                 ELSE status)

\* num_running_nodes
CountRunningNodes(steps) ==
    Cardinality({i \in DOMAIN steps :
        /\ StartsWith(steps[i].name, NODE)
        /\ steps[i].status = TRAINJOB_RUNNING})

\* Mutant of ReconcileStatus: without conditions, a Failed step makes the
\* job Failed.
ReconcileStatus_PodTerminal(status, steps, num_nodes) ==
    IF status.present /\ status.conditions # <<>>
    THEN StatusFromConditions(status.conditions, TRAINJOB_CREATED)
    ELSE IF \E i \in DOMAIN steps : steps[i].status = "Failed"
         THEN TRAINJOB_FAILED
         ELSE IF num_nodes = CountRunningNodes(steps)
              THEN TRAINJOB_RUNNING
              ELSE TRAINJOB_CREATED

\* Mutant of ReconcileStatus: one Running node is enough for Running.
ReconcileStatus_AnyRunning(status, steps, num_nodes) ==
    IF status.present /\ status.conditions # <<>>
    THEN StatusFromConditions(status.conditions, TRAINJOB_CREATED)
    ELSE IF CountRunningNodes(steps) >= 1
         THEN TRAINJOB_RUNNING
         ELSE TRAINJOB_CREATED

\* The status update that ends __get_trainjob_from_crd.
ReconcileStatus(status, steps, num_nodes) ==
    IF status.present /\ status.conditions # <<>>
    THEN StatusFromConditions(status.conditions, TRAINJOB_CREATED)
    ELSE IF num_nodes = CountRunningNodes(steps)
         THEN TRAINJOB_RUNNING
         ELSE TRAINJOB_CREATED

get_trainjob_from_crd(status, specNodes, runtimeNodes, podList) ==
    LET num_nodes == NumNodes(specNodes, runtimeNodes)
        steps == StepsOfPods(podList)
    IN  IF \E i \in DOMAIN podList : ~PodIsValid(podList[i])
        THEN [outcome |-> "RuntimeError"]
        ELSE [outcome |-> "ok",
              num_nodes |-> num_nodes,
              steps |-> steps,
              status |-> ReconcileStatus(status, steps, num_nodes)]

(* ------------------------- observable inputs -------------------------- *)

CondTypes == {TRAINJOB_COMPLETE, TRAINJOB_FAILED, "Suspended"}

Conditions == [type : CondTypes, status : {"True", "False"}]

\* Condition lists: at most one condition per type, in any order.
CondLists ==
    {s \in UNION {[1..n -> Conditions] : n \in 0..Cardinality(CondTypes)} :
        \A i, j \in DOMAIN s : i # j => s[i].type # s[j].type}

Statuses ==
    {[present |-> FALSE, conditions |-> <<>>]}
    \cup {[present |-> TRUE, conditions |-> c] : c \in CondLists}

\* How many Pods before position i of a listing carry the role of Pod i.
EarlierOfRole(roles, i) == Cardinality({j \in 1..(i - 1) : roles[j] = roles[i]})

\* Listings of at most MaxPods Pods: every role and phase at every position;
\* the Pods of one role carry the completion indexes 0, 1, ... in listing order.
PodLists ==
    UNION {
        {[i \in 1..n |-> [name |-> i,
                          rjob_name |-> r[i],
                          job_index |-> IntToStr(EarlierOfRole(r, i)),
                          phase |-> p[i],
                          lacks |-> {}]] :
            r \in [1..n -> POD_LABEL_SELECTOR], p \in [1..n -> PodPhases]} :
        n \in 0..MaxPods}

\* Listings in which at most one Pod, at any position, lacks some of its
\* parts; the Pods of a listing with such a Pod are Running.
PodListsWithInvalid ==
    PodLists
    \cup UNION {
        {[i \in 1..n |-> [name |-> i,
                          rjob_name |-> r[i],
                          job_index |-> IntToStr(EarlierOfRole(r, i)),
                          phase |-> "Running",
                          lacks |-> IF i = k THEN parts ELSE {}]] :
            r \in [1..n -> POD_LABEL_SELECTOR],
            k \in 1..n, parts \in SUBSET PodParts} :
        n \in 1..MaxPods}

\* (TrainJob num_nodes, runtime num_nodes): unset over the largest runtime
\* default, or set over a runtime default of one node.
NodeCounts == {<<0, MaxNodes>>} \cup {<<s, 1>> : s \in 1..MaxNodes}

(* ------------------- reconciliation of every input ------------------- *)

\* No wait_for_job_status call is in progress.
WaitIdle ==
    /\ wpc = "idle"
    /\ target = {}
    /\ watch = "none"
    /\ pending = 0
    /\ ended = FALSE
    /\ streamError = "none"
    /\ fetched = <<>>
    /\ result = NoJob

\* __get_trainjob_from_crd applied once to the observed resource and Pods.
reconcile ==
    /\ job = NoJob
    /\ job' = get_trainjob_from_crd(crdStatus, specNumNodes, runtimeNumNodes, pods)
    /\ UNCHANGED <<apiFault, seenRunning>>
    /\ fresh' = TRUE
    /\ UNCHANGED <<clusterVars, waitVars, logVars>>

\* Every observable resource status, node count and Pod listing.
InitReconcile ==
    /\ crdStatus \in Statuses
    /\ \E nc \in NodeCounts : specNumNodes = nc[1] /\ runtimeNumNodes = nc[2]
    /\ pods \in PodLists
    /\ job = NoJob
    /\ apiFault = "none"
    /\ seenRunning = FALSE
    /\ fresh = FALSE
    /\ WaitIdle
    /\ LogIdle
    /\ containerLines = 0

NextReconcile == reconcile

SpecReconcile == InitReconcile /\ [][NextReconcile]_vars

(* --------------------- claims on the reconciled status ---------------- *)

\* The resource carries a condition of this type with status "True".
HasTrueCondition(type) ==
    /\ crdStatus.present
    /\ \E i \in DOMAIN crdStatus.conditions :
          /\ crdStatus.conditions[i].type = type
          /\ crdStatus.conditions[i].status = "True"

Fetched == job.outcome = "ok"

\* Number of the returned Job's steps named node... whose status is Running.
RunningNodeSteps ==
    Cardinality({i \in DOMAIN job.steps :
        /\ StartsWith(job.steps[i].name, NODE)
        /\ job.steps[i].status = TRAINJOB_RUNNING})

\* C1: a Job fetched from a resource with a Complete condition of status
\* "True" has status Complete, whatever its Pods and other conditions are.
C1_CompleteWhateverElse ==
    (Fetched /\ HasTrueCondition(TRAINJOB_COMPLETE))
        => job.status = TRAINJOB_COMPLETE

\* C2: with both a true Complete and a true Failed condition, in either
\* order in the list, the reconciled status is Complete.
C2_CompleteBeforeFailed ==
    (Fetched /\ HasTrueCondition(TRAINJOB_COMPLETE)
             /\ HasTrueCondition(TRAINJOB_FAILED))
        => job.status = TRAINJOB_COMPLETE

\* C3: with no terminal condition true (list absent, empty, or holding only
\* other or false conditions) the status is Running exactly when the number
\* of Running node steps equals the node count, and Created otherwise.
C3_PodInferenceWithoutTerminal ==
    (Fetched /\ ~HasTrueCondition(TRAINJOB_COMPLETE)
             /\ ~HasTrueCondition(TRAINJOB_FAILED))
        => /\ job.status \in {TRAINJOB_RUNNING, TRAINJOB_CREATED}
           /\ job.status = TRAINJOB_RUNNING <=> RunningNodeSteps = job.num_nodes

\* C4: a true Failed condition and no true Complete condition give status
\* Failed, whatever the phases of the Pods are.
C4_FailedWithoutComplete ==
    (Fetched /\ HasTrueCondition(TRAINJOB_FAILED)
             /\ ~HasTrueCondition(TRAINJOB_COMPLETE))
        => job.status = TRAINJOB_FAILED

\* C4 witness: Failed reported over a job whose only node Pod is Running.
C4_Witness ==
    /\ Fetched
    /\ HasTrueCondition(TRAINJOB_FAILED)
    /\ ~HasTrueCondition(TRAINJOB_COMPLETE)
    /\ job.num_nodes = 1
    /\ RunningNodeSteps = 1
    /\ job.status = TRAINJOB_FAILED

\* C5: the status of every Job returned is one of Created, Running, Complete,
\* Failed, and is Complete (Failed) only if the resource carries a Complete
\* (Failed) condition with status "True".
C5_StatusInvariant ==
    Fetched =>
        /\ job.status \in job_statuses
        /\ job.status = TRAINJOB_COMPLETE => HasTrueCondition(TRAINJOB_COMPLETE)
        /\ job.status = TRAINJOB_FAILED => HasTrueCondition(TRAINJOB_FAILED)

\* C5 witness: Pods Succeeded or Failed and no terminal condition: the
\* status returned is not terminal.
C5_Witness ==
    /\ Fetched
    /\ Len(pods) = MaxPods
    /\ \A i \in DOMAIN pods : pods[i].phase \in {"Succeeded", "Failed"}
    /\ \E i \in DOMAIN pods : pods[i].phase = "Failed"
    /\ ~HasTrueCondition(TRAINJOB_COMPLETE)
    /\ ~HasTrueCondition(TRAINJOB_FAILED)
    /\ job.status = TRAINJOB_CREATED

(* --------------------------- the live cluster -------------------------- *)

\* A freshly created TrainJob: no status yet, no Pods yet.
InitCluster ==
    /\ crdStatus = [present |-> FALSE, conditions |-> <<>>]
    /\ \E nc \in NodeCounts : specNumNodes = nc[1] /\ runtimeNumNodes = nc[2]
    /\ pods = <<>>

\* An open Pod watch is handed one event for every change of a watched Pod.
EventsAfterPodChange == IF watch = "open" THEN pending + 1 ELSE pending

\* The stream of an open watch delivers at most MaxEvents events.
WatchHasRoom == watch = "open" => Len(fetched) + pending < MaxEvents

\* The controller creates the next node Pod of the job, Pending.
PodCreated ==
    /\ Len(pods) < NumNodes(specNumNodes, runtimeNumNodes)
    /\ Len(pods) < MaxPods
    /\ WatchHasRoom
    /\ pods' = Append(pods, [name |-> Len(pods) + 1,
                             rjob_name |-> NODE,
                             job_index |-> IntToStr(Len(pods)),
                             phase |-> "Pending",
                             lacks |-> {}])
    /\ pending' = EventsAfterPodChange
    /\ fresh' = FALSE
    /\ UNCHANGED <<crdStatus, specNumNodes, runtimeNumNodes, job, apiFault, seenRunning,
                   wpc, target, watch, ended, streamError, fetched, result,
                   logVars>>

\* A Pod reports another phase.
PodPhaseChanged ==
    /\ WatchHasRoom
    /\ \E i \in DOMAIN pods : \E phase \in PodPhases \ {pods[i].phase} :
          pods' = [pods EXCEPT ![i].phase = phase]
    /\ pending' = EventsAfterPodChange
    /\ fresh' = FALSE
    /\ UNCHANGED <<crdStatus, specNumNodes, runtimeNumNodes, job, apiFault, seenRunning,
                   wpc, target, watch, ended, streamError, fetched, result,
                   logVars>>

\* The controller reports a terminal condition as true on the resource; no
\* Pod changes, so a Pod watch sees no event.
ConditionSet ==
    /\ \E type \in {TRAINJOB_COMPLETE, TRAINJOB_FAILED} :
          /\ \A i \in DOMAIN crdStatus.conditions :
                crdStatus.conditions[i].type # type
          /\ crdStatus' =
                [present |-> TRUE,
                 conditions |-> Append(crdStatus.conditions,
                                       [type |-> type, status |-> "True"])]
    /\ fresh' = FALSE
    /\ UNCHANGED <<specNumNodes, runtimeNumNodes, pods, job, apiFault, seenRunning, waitVars, logVars>>

(* ------------------------------ get_job ------------------------------- *)

\* What a call of the cluster API does: answer, time out, or fail.
ApiFaults == {"none", "TimeoutError", "RuntimeError"}

\* Mutant of get_job_result: a job once returned as Running is not
\* returned as Created again.
get_job_result_Latched(fault) ==
    IF fault # "none" THEN [outcome |-> fault]
    ELSE LET trainjob == get_trainjob_from_crd(crdStatus, specNumNodes,
                                               runtimeNumNodes, pods)
         IN  IF /\ job.outcome = "ok" /\ job.status = TRAINJOB_RUNNING
                /\ trainjob.outcome = "ok" /\ trainjob.status = TRAINJOB_CREATED
             THEN [trainjob EXCEPT !.status = TRAINJOB_RUNNING]
             ELSE trainjob

\* get_job: the resource is read and reconciled with its Pods, or the read
\* (or the listing of the Pods) raises.
get_job_result(fault) ==
    IF fault = "none"
    THEN get_trainjob_from_crd(crdStatus, specNumNodes, runtimeNumNodes, pods)
    ELSE [outcome |-> fault]

\* The call before this one returned a Running job, or one before it did.
SeenRunningNow ==
    seenRunning \/ (job.outcome = "ok" /\ job.status = TRAINJOB_RUNNING)

get_job ==
    /\ \E fault \in ApiFaults :
          /\ apiFault' = fault
          /\ job' = get_job_result(fault)
    /\ seenRunning' = SeenRunningNow
    /\ fresh' = TRUE
    /\ UNCHANGED <<clusterVars, waitVars, logVars>>

\* get_job called at any moment of a job's life.
InitEvolve == InitCluster /\ job = NoJob /\ apiFault = "none" /\ seenRunning = FALSE
    /\ fresh = FALSE
    /\ WaitIdle /\ LogIdle /\ containerLines = 0

NextEvolve == PodCreated \/ PodPhaseChanged \/ ConditionSet \/ get_job

SpecEvolve == InitEvolve /\ [][NextEvolve]_vars

(* ------------------ claims on a sequence of get_job calls -------------- *)

\* The Pods listed are exactly node-0 and node-1, in these phases.
TwoNodePods(phase0, phase1) ==
    /\ Len(pods) = 2
    /\ pods[1].rjob_name = NODE /\ pods[1].job_index = <<"0">>
    /\ pods[1].phase = phase0
    /\ pods[2].rjob_name = NODE /\ pods[2].job_index = <<"1">>
    /\ pods[2].phase = phase1

NoConditions == crdStatus.conditions = <<>>

OnlyCompleteTrue ==
    /\ crdStatus.present
    /\ crdStatus.conditions = <<[type |-> TRAINJOB_COMPLETE, status |-> "True"]>>

\* C6: on a job with 2 declared nodes, a get_job call made with no
\* conditions and node-0 Running, node-1 Pending returns Created; made with
\* no conditions and both Running it returns Running; made once the
\* resource reports Complete="True" it returns Complete whatever the Pods
\* report then, a Failed Pod included.
C6_EndToEnd ==
    (fresh /\ Fetched /\ job.num_nodes = 2) =>
        /\ (NoConditions /\ TwoNodePods("Running", "Pending"))
              => job.status = TRAINJOB_CREATED
        /\ (NoConditions /\ TwoNodePods("Running", "Running"))
              => job.status = TRAINJOB_RUNNING
        /\ OnlyCompleteTrue => job.status = TRAINJOB_COMPLETE

\* C6 witness: Complete is reported, node-1 has Failed since, and the call
\* made then returns Complete.
C6_Witness ==
    /\ fresh /\ Fetched /\ job.num_nodes = 2
    /\ OnlyCompleteTrue
    /\ TwoNodePods("Running", "Failed")
    /\ job.status = TRAINJOB_COMPLETE

(* ------------------------ wait_for_job_status ------------------------- *)

\* The status sets a caller passes: the valid statuses and one other value.
TargetSets == SUBSET (job_statuses \cup {"Succeeded"})

\* Mutant of ValidTarget: a proper subset is demanded.
ValidTarget_Proper(status) ==
    status \subseteq job_statuses /\ status # job_statuses

\* Mutant of ValidTarget: the empty set is refused.
ValidTarget_NonEmpty(status) ==
    status \subseteq job_statuses /\ status # {}

\* status.issubset(job_statuses)
ValidTarget(status) == status \subseteq job_statuses

\* Mutant of EventOutcome: the raise on an unexpected Failed is missing.
EventOutcome_NoAbort(trainjob, status) ==
    IF trainjob.outcome = "TimeoutError" THEN "TimeoutError"
    ELSE IF trainjob.outcome # "ok" THEN "RuntimeError"
    ELSE IF trainjob.status \in status THEN "returned"
    ELSE "watching"

\* Mutant of EventOutcome: the first Job re-fetched is returned unless it
\* is an unexpected Failed.
EventOutcome_ReturnsFirst(trainjob, status) ==
    IF trainjob.outcome = "TimeoutError" THEN "TimeoutError"
    ELSE IF trainjob.outcome # "ok" THEN "RuntimeError"
    ELSE IF TRAINJOB_FAILED \notin status /\ trainjob.status = TRAINJOB_FAILED
    THEN "RuntimeError"
    ELSE "returned"

\* Mutant of EventOutcome: an error of the re-fetch is swallowed and the
\* loop goes on.
EventOutcome_SwallowsError(trainjob, status) ==
    IF trainjob.outcome # "ok" THEN "watching"
    ELSE IF TRAINJOB_FAILED \notin status /\ trainjob.status = TRAINJOB_FAILED
    THEN "RuntimeError"
    ELSE IF trainjob.status \in status THEN "returned"
    ELSE "watching"

\* The body of the watch loop for one event, given the re-fetched Job (or
\* what get_job raised): the error the call raises, "returned" when the Job
\* is returned, "watching" when the loop goes on to the next event.
EventOutcome(trainjob, status) ==
    IF trainjob.outcome = "TimeoutError" THEN "TimeoutError"
    ELSE IF trainjob.outcome # "ok" THEN "RuntimeError"
    ELSE IF TRAINJOB_FAILED \notin status /\ trainjob.status = TRAINJOB_FAILED
    THEN "RuntimeError"
    ELSE IF trainjob.status \in status THEN "returned"
    ELSE "watching"

\* Mutant of StreamEndOutcome: the raise after the try statement is missing,
\* the call returns.
StreamEndOutcome_Returns == "returned"

\* What the call does when the stream ends without a return or an error.
StreamEndOutcome == "TimeoutError"

\* The state of the watch after the try statement is left: finally w.stop().
WatchAfter_NoFinally(outcome) == IF outcome = "returned" THEN "stopped" ELSE "open"

WatchAfter(outcome) == IF outcome = "watching" THEN "open" ELSE "stopped"

\* The call is made: the status set is validated, then the watch is opened
\* and its stream holds one event for each Pod that exists.
wait_for_job_status ==
    /\ wpc = "idle"
    /\ \E status \in TargetSets :
          /\ target' = status
          /\ IF ValidTarget(status)
             THEN /\ wpc' = "watching"
                  /\ watch' = "open"
                  /\ pending' = Len(pods)
             ELSE /\ wpc' = "ValueError"
                  /\ UNCHANGED <<watch, pending>>
    /\ UNCHANGED <<clusterVars, job, apiFault, seenRunning, fresh, ended, streamError, fetched, result,
                   logVars>>

\* The stream delivers an event: the Job is re-fetched and compared.
watch_event ==
    /\ wpc = "watching"
    /\ pending > 0
    /\ Len(fetched) < MaxEvents
    /\ pending' = pending - 1
    /\ \E fault \in ApiFaults :
          LET trainjob == get_job_result(fault)
              outcome == EventOutcome(trainjob, target)
          IN  /\ fetched' = Append(fetched, IF trainjob.outcome = "ok"
                                            THEN trainjob.status
                                            ELSE trainjob.outcome)
              /\ wpc' = outcome
              /\ watch' = WatchAfter(outcome)
              /\ result' = IF outcome = "returned" THEN trainjob ELSE result
    /\ UNCHANGED <<clusterVars, job, apiFault, seenRunning, fresh, target, ended, streamError, logVars>>

\* The stream ends: its timeout elapsed.
stream_end ==
    /\ wpc = "watching"
    /\ ended' = TRUE
    /\ wpc' = StreamEndOutcome
    /\ watch' = WatchAfter(StreamEndOutcome)
    /\ UNCHANGED <<clusterVars, job, apiFault, seenRunning, fresh, target, pending, streamError,
                   fetched, result, logVars>>

StreamErrorOutcome_AsTimeout(error) == "TimeoutError"

\* What the call raises when the watch stream raises: a TimeoutError stays
\* one, every other exception becomes a RuntimeError.
StreamErrorOutcome(error) ==
    IF error = "TimeoutError" THEN "TimeoutError" ELSE "RuntimeError"

\* The stream raises instead of delivering an event or ending.
stream_error ==
    /\ wpc = "watching"
    /\ \E error \in {"TimeoutError", "Exception"} :
          /\ streamError' = error
          /\ wpc' = StreamErrorOutcome(error)
          /\ watch' = WatchAfter(StreamErrorOutcome(error))
    /\ UNCHANGED <<clusterVars, job, apiFault, seenRunning, fresh, target, pending, ended,
                   fetched, result, logVars>>

\* The cluster changes until the call has ended.
WaitOpen == wpc \in {"idle", "watching"}

InitWait == InitCluster /\ job = NoJob /\ apiFault = "none" /\ seenRunning = FALSE
    /\ fresh = FALSE
    /\ WaitIdle /\ LogIdle /\ containerLines = 0

NextWait ==
    \/ WaitOpen /\ PodCreated
    \/ WaitOpen /\ PodPhaseChanged
    \/ WaitOpen /\ ConditionSet
    \/ wait_for_job_status
    \/ watch_event
    \/ stream_end
    \/ stream_error

SpecWait == InitWait /\ [][NextWait]_vars

(* --------------------- claims on wait_for_job_status ------------------- *)

\* C7: the call is rejected with ValueError if and only if the status set
\* holds a value outside Created, Running, Complete, Failed (every subset
\* of the four, the full set included, is accepted); on rejection no watch
\* was opened and no Job was fetched.
C7_RejectedIffOutsideEnum ==
    wpc # "idle" =>
        /\ wpc = "ValueError" <=>
              (\E v \in target :
                  v \notin {"Created", "Running", "Complete", "Failed"})
        /\ wpc = "ValueError" =>
              /\ watch = "none"
              /\ pending = 0
              /\ ~ended
              /\ fetched = <<>>
              /\ result = NoJob

\* C7 witness: a set with a foreign value is rejected while Pods exist.
C7_Witness ==
    /\ wpc = "ValueError"
    /\ target = {"Complete", "Succeeded"}
    /\ pods # <<>>

\* C8: once a re-fetch gives Failed and Failed is not in the status set,
\* the call has ended with RuntimeError at that event: it is the last event
\* consumed, no Job is returned and the stream end is never reached.
C8_UnexpectedFailedAborts ==
    (TRAINJOB_FAILED \notin target
        /\ \E i \in DOMAIN fetched : fetched[i] = TRAINJOB_FAILED)
    => /\ wpc = "RuntimeError"
       /\ fetched[Len(fetched)] = TRAINJOB_FAILED
       /\ \A i \in 1..(Len(fetched) - 1) : fetched[i] # TRAINJOB_FAILED
       /\ result = NoJob
       /\ ~ended

\* C8 witness: waiting for Complete, the second event finds the job Failed.
C8_Witness ==
    /\ target = {"Complete"}
    /\ fetched = <<"Created", "Failed">>
    /\ wpc = "RuntimeError"

\* C9: a returned Job is the snapshot of the last event consumed, its
\* status is in the status set, every earlier snapshot had a status outside
\* the set, and a snapshot with a status in the set ends the call.
C9_FirstMatchReturned ==
    /\ wpc = "returned" =>
          /\ result.outcome = "ok"
          /\ result.status \in target
          /\ fetched # <<>>
          /\ fetched[Len(fetched)] = result.status
          /\ \A i \in 1..(Len(fetched) - 1) : fetched[i] \notin target
    /\ \A i \in DOMAIN fetched :
          fetched[i] \in target => (i = Len(fetched) /\ wpc = "returned")
    /\ result # NoJob => wpc = "returned"

\* C9 witness: waiting for Running, the first event finds Created and the
\* second Running.
C9_Witness ==
    /\ wpc = "returned"
    /\ target = {"Running"}
    /\ fetched = <<"Created", "Running">>
    /\ result.status = "Running"

\* C10: when the stream has ended, the call has raised TimeoutError: no Job
\* is returned, and no snapshot matched the status set.
C10_StreamEndTimesOut ==
    ended =>
        /\ wpc = "TimeoutError"
        /\ result = NoJob
        /\ \A i \in DOMAIN fetched : fetched[i] \notin target

\* C10 witness: the stream ends after an event that did not match.
C10_Witness ==
    /\ ended
    /\ target = {"Complete"}
    /\ fetched = <<"Running">>
    /\ wpc = "TimeoutError"

\* The call has ended after it opened a watch.
WaitEnded == wpc \in {"returned", "RuntimeError", "TimeoutError"}

Last(seq) == seq[Len(seq)]

\* C11: a call that opened a watch and has ended, by whatever exit (Job
\* returned, Failed abort, timeout at the end of the stream, error raised by
\* the stream or by the re-fetch), has stopped the watch; the watch is open
\* only while the call is watching.
C11_WatchReleased ==
    /\ WaitEnded => watch = "stopped"
    /\ watch = "open" => wpc = "watching"
    /\ wpc = "ValueError" => watch = "none"

\* C11 witness: the stream raised, the call ended with RuntimeError and the
\* watch is stopped.
C11_Witness ==
    /\ streamError = "Exception"
    /\ wpc = "RuntimeError"
    /\ watch = "stopped"

\* C12: a call waiting for {Complete} during which the resource came to
\* report Failed="True" (its first re-fetch did not show Failed, no read
\* failed) has ended with RuntimeError on a snapshot that shows Failed,
\* never with TimeoutError.
C12_FailedWhileWaitingAborts ==
    ( /\ WaitEnded
      /\ target = {TRAINJOB_COMPLETE}
      /\ HasTrueCondition(TRAINJOB_FAILED)
      /\ ~HasTrueCondition(TRAINJOB_COMPLETE)
      /\ streamError = "none"
      /\ fetched # <<>>
      /\ fetched[1] \in {TRAINJOB_CREATED, TRAINJOB_RUNNING}
      /\ \A i \in DOMAIN fetched : fetched[i] \in job_statuses )
    => /\ wpc = "RuntimeError"
       /\ Last(fetched) = TRAINJOB_FAILED

\* The status get_job would give for the cluster as it is now.
StatusNow ==
    get_trainjob_from_crd(crdStatus, specNumNodes, runtimeNumNodes, pods).status

\* C13: when the stream has ended (the timeout elapsed), the status the Job
\* has and kept until then is not in the status set: a Job that holds a
\* requested status at the timeout was returned, not timed out.
C13_HeldTargetIsReturned ==
    ended => StatusNow \notin target

\* C14, as stated: the call has returned only on an event whose re-fetched
\* status is in the set, raised RuntimeError only on an event whose
\* re-fetched status is Failed with Failed not in the set, raised
\* TimeoutError only when the stream ended, and no event precedes the last
\* one with a terminal outcome.
C14_OutcomeCauses_Stated ==
    /\ wpc = "returned" =>
          fetched # <<>> /\ Last(fetched) \in target /\ ~ended
    /\ wpc = "RuntimeError" =>
          /\ fetched # <<>>
          /\ Last(fetched) = TRAINJOB_FAILED
          /\ TRAINJOB_FAILED \notin target
          /\ ~ended
    /\ wpc = "TimeoutError" => ended

\* The snapshot `entry` of a re-fetch left the call waiting.
KeptWaiting(entry) ==
    /\ entry \in job_statuses \ target
    /\ entry # TRAINJOB_FAILED

\* The outcome of the call has one of the causes the code gives it.
OutcomeCauses ==
    /\ wpc = "returned" =>
          /\ fetched # <<>> /\ Last(fetched) \in target
          /\ result.outcome = "ok" /\ result.status = Last(fetched)
          /\ ~ended /\ streamError = "none"
    /\ wpc = "RuntimeError" =>
          /\ ~ended
          /\ result = NoJob
          /\ \/ /\ streamError = "none"
                /\ fetched # <<>>
                /\ Last(fetched) = TRAINJOB_FAILED
                /\ TRAINJOB_FAILED \notin target
             \/ /\ streamError = "none"
                /\ fetched # <<>>
                /\ Last(fetched) = "RuntimeError"
             \/ streamError = "Exception"
    /\ wpc = "TimeoutError" =>
          /\ result = NoJob
          /\ \/ ended /\ streamError = "none"
                /\ (fetched # <<>> => KeptWaiting(Last(fetched)))
             \/ /\ ~ended /\ streamError = "none"
                /\ fetched # <<>>
                /\ Last(fetched) = "TimeoutError"
             \/ ~ended /\ streamError = "TimeoutError"
    /\ wpc \in {"watching", "returned", "RuntimeError", "TimeoutError"} =>
          \A i \in 1..(Len(fetched) - 1) : KeptWaiting(fetched[i])
    /\ wpc = "watching" =>
          /\ ~ended /\ streamError = "none" /\ result = NoJob
          /\ \A i \in DOMAIN fetched : KeptWaiting(fetched[i])

\* C14: the call goes from waiting to exactly one outcome: returned on an
\* event whose re-fetched status is in the set; RuntimeError on an event
\* whose re-fetched status is Failed with Failed not in the set, or when the
\* re-fetch or the stream raised an error other than a timeout;
\* TimeoutError when the stream ended, or when the re-fetch or the stream
\* raised a timeout. Once it has an outcome, the call processes no event
\* and its state never changes again.
C14_OutcomeCauses ==
    /\ []OutcomeCauses
    /\ [][WaitEnded => UNCHANGED waitVars]_vars

\* C14 witness: the re-fetch on the second event raised, the call ended with
\* RuntimeError although no snapshot showed Failed.
C14_Witness ==
    /\ wpc = "RuntimeError"
    /\ fetched = <<TRAINJOB_CREATED, "RuntimeError">>
    /\ TRAINJOB_FAILED \notin target

(* ------------------- get_job on any Pod listing ----------------------- *)

InitClassify ==
    /\ crdStatus = [present |-> FALSE, conditions |-> <<>>]
    /\ specNumNodes = 0
    /\ runtimeNumNodes = MaxNodes
    /\ pods \in PodListsWithInvalid
    /\ job = NoJob
    /\ apiFault = "none"
    /\ seenRunning = FALSE
    /\ fresh = FALSE
    /\ WaitIdle
    /\ LogIdle
    /\ containerLines = 0

NextClassify == get_job

SpecClassify == InitClassify /\ [][NextClassify]_vars

IsInitializer(pod) == pod.rjob_name \in {DATASET_INITIALIZER, MODEL_INITIALIZER}

\* C18: a Job that get_job returned has one step per listed Pod, in listing
\* order; the step of a dataset-initializer or model-initializer Pod is named
\* by the role with no suffix, the step of a node or launcher Pod with
\* completion index i is named "{role}-{i}".
C18_StepNames ==
    (fresh /\ Fetched) =>
        /\ Len(job.steps) = Len(pods)
        /\ \A i \in DOMAIN pods :
              /\ job.steps[i].pod_name = pods[i].name
              /\ job.steps[i].name =
                    IF IsInitializer(pods[i])
                    THEN pods[i].rjob_name
                    ELSE pods[i].rjob_name \o <<"-">> \o pods[i].job_index

\* C18 witness: a model-initializer Pod listed before a node Pod with
\* completion index 0 gives the steps model-initializer, node-0 in this order.
C18_Witness ==
    /\ fresh /\ Fetched
    /\ Len(job.steps) = 2
    /\ job.steps[1].name = MODEL_INITIALIZER
    /\ job.steps[2].name = <<"n", "o", "d", "e", "-", "0">>

\* C19: when a listed Pod lacks its metadata, its name, its labels or its
\* spec, get_job has raised RuntimeError and given no Job, whatever the
\* other Pods are.
C19_InvalidPodFails ==
    (fresh /\ apiFault = "none" /\ \E i \in DOMAIN pods : pods[i].lacks # {}) =>
        job = [outcome |-> "RuntimeError"]

\* C19 witness: the second Pod of the listing has no spec, the first is
\* valid; the call raised RuntimeError.
C19_Witness ==
    /\ fresh
    /\ Len(pods) = 2
    /\ pods[1].lacks = {}
    /\ pods[2].lacks = {"spec"}
    /\ apiFault = "none"
    /\ job.outcome = "RuntimeError"

(* ---------------------------- get_job_logs ---------------------------- *)

\* f"{step}-{node_rank}"
StepRankKey(step, node_rank) == step \o <<"-">> \o IntToStr(node_rank)

MatchingSteps_PendingToo(steps, step, node_rank) ==
    {i \in DOMAIN steps :
        \/ steps[i].name = step
        \/ steps[i].name = StepRankKey(step, node_rank)}

\* The steps the selection loop accepts: not Pending, named as asked.
MatchingSteps(steps, step, node_rank) ==
    {i \in DOMAIN steps :
        /\ steps[i].status # POD_PENDING
        /\ \/ steps[i].name = step
           \/ steps[i].name = StepRankKey(step, node_rank)}

SelectPod_First(steps, step, node_rank) ==
    LET matching == MatchingSteps(steps, step, node_rank)
    IN  IF matching = {} THEN 0
        ELSE steps[CHOOSE i \in matching : \A j \in matching : i <= j].pod_name

\* The selection loop: the last accepted step gives pod_name, None if none.
SelectPod(steps, step, node_rank) ==
    LET matching == MatchingSteps(steps, step, node_rank)
    IN  IF matching = {} THEN 0
        ELSE steps[CHOOSE i \in matching : \A j \in matching : i >= j].pod_name

LogKey_StepRank(step, node_rank) == StepRankKey(step, node_rank)

\* The key the static read is stored under.
LogKey(step, node_rank) ==
    IF step = DATASET_INITIALIZER THEN DATASET_INITIALIZER
    ELSE IF step = MODEL_INITIALIZER THEN MODEL_INITIALIZER
    ELSE StepRankKey(step, node_rank)

\* The container the static read asks for.
LogContainer(step) ==
    IF step = DATASET_INITIALIZER THEN DATASET_INITIALIZER
    ELSE IF step = MODEL_INITIALIZER THEN MODEL_INITIALIZER
    ELSE NODE

IsFollowed_AnyStep(follow, step) == follow

\* if follow and step == constants.NODE
IsFollowed(follow, step) == follow /\ step = NODE

\* The text read_namespaced_pod_log returns for a container of a Pod.
StaticLog(pod, container) == [pod |-> pod, container |-> container]

\* Line k of the followed container's log.
LineText(k) == <<"l">> \o IntToStr(k)

DictGet_AlwaysDefault(dict, key) == <<>>

\* logs_dict.get(key, "")
DictGet(dict, key) == IF key \in DOMAIN dict THEN dict[key] ELSE <<>>

\* logs_dict[key] = value
DictPut(dict, key, value) ==
    [k \in DOMAIN dict \cup {key} |-> IF k = key THEN value ELSE dict[k]]

\* logs_dict[key] = logs_dict.get(key, "") + logline + "\n"
AppendLine(dict, key, logline) ==
    DictPut(dict, key, DictGet(dict, key) \o logline \o <<"\n">>)

\* What a worker puts in its queue: a line, or None when the stream ended.
LineItem(text) == [eos |-> FALSE, text |-> text]

EndOfStream == [eos |-> TRUE, text |-> <<>>]

AllFinished(fin) == \A i \in DOMAIN fin : fin[i]

MarkFinished_Never(fin, i) == fin

\* finished[index] = True
MarkFinished(fin, i) == [fin EXCEPT ![i] = TRUE]

\* Where the polling loop goes when its pass over queue i is over: the next
\* queue not finished, in the same or in the next round; 0 when all(finished)
\* makes the call return.
NextIndex(fin, i) ==
    IF AllFinished(fin) THEN 0
    ELSE LET unfinished == {j \in DOMAIN fin : ~fin[j]}
             later == {j \in unfinished : j > i}
         IN  IF later # {}
             THEN CHOOSE j \in later : \A k \in later : j <= k
             ELSE CHOOSE j \in unfinished : \A k \in unfinished : j <= k

\* Mutant of GetResult: get() without a timeout waits on an empty queue.
GetResult_Blocking(q) ==
    IF q = <<>> THEN "blocked"
    ELSE IF Head(q).eos THEN "None"
    ELSE "line"

\* log_queue.get(timeout=1): queue.Empty is raised when the queue stays
\* empty for the timeout, else the head is returned, None or a line.
GetResult(q) ==
    IF q = <<>> THEN "Empty"
    ELSE IF Head(q).eos THEN "None"
    ELSE "line"

\* Mutant of FinishedAfterGet: an empty read finishes the stream as None does.
FinishedAfterGet_Conflated(fin, i, got) ==
    IF got \in {"None", "Empty"} THEN MarkFinished(fin, i) ELSE fin

\* The finished flags after one get: only None sets the flag.
FinishedAfterGet(fin, i, got) ==
    IF got = "None" THEN MarkFinished(fin, i) ELSE fin

\* Mutant of PassOver: the pass has no batch limit.
PassOver_NoBatch(got, count) == got \in {"Empty", "None"}

\* Whether the pass over a queue is over after one get: queue.Empty and
\* None break out of it, range(50) ends it.
PassOver(got, count) == got \in {"Empty", "None"} \/ count = BatchSize

\* Mutant of AtEndOfStream: None creates the entry of the stream.
AtEndOfStream_CreatesEntry(dict, key) == DictPut(dict, key, DictGet(dict, key))

\* logs_dict when None is taken: untouched.
AtEndOfStream(dict, key) == dict

\* Mutant of QueueFull: put never waits.
QueueFull_Never(q, size) == FALSE

\* Whether put has to wait: the queue holds as many items as its size.
QueueFull(q, size) == Len(q) >= size

LogOutcome_ReadErrorSwallowed(trainjob, name, live, raised) ==
    IF trainjob.outcome # "ok" THEN trainjob.outcome
    ELSE IF name = 0 THEN "returned"
    ELSE IF live THEN "following"
    ELSE "returned"

\* How the call goes on after the selection loop: get_job raised, no Pod
\* selected, streams opened, or the static read raised or returned.
LogOutcome(trainjob, name, live, raised) ==
    IF trainjob.outcome # "ok" THEN trainjob.outcome
    ELSE IF name = 0 THEN "returned"
    ELSE IF live THEN "following"
    ELSE IF raised THEN "RuntimeError"
    ELSE "returned"

LogSteps ==
    {NODE, LAUNCHER, DATASET_INITIALIZER, MODEL_INITIALIZER,
     StepRankKey(NODE, 0)}

NodeRanks == 0..(MaxNodes - 1)

\* The call up to its return, or up to the start of the polling loop.
get_job_logs ==
    /\ lpc = "idle"
    /\ \E step \in LogSteps, node_rank \in NodeRanks, follow \in BOOLEAN,
          fault \in ApiFaults, raised \in BOOLEAN, size \in 1..MaxCapacity :
          LET trainjob == get_job_result(fault)
              name == IF trainjob.outcome = "ok"
                      THEN SelectPod(trainjob.steps, step, node_rank)
                      ELSE 0
              static == trainjob.outcome = "ok" /\ name # 0
                        /\ ~IsFollowed(follow, step)
              live == trainjob.outcome = "ok" /\ name # 0
                      /\ IsFollowed(follow, step)
          IN  /\ static \/ ~raised
              /\ live \/ size = 1
              /\ largs' = [step |-> step, node_rank |-> node_rank,
                           follow |-> follow]
              /\ job' = trainjob
              /\ apiFault' = fault
              /\ seenRunning' = SeenRunningNow
              /\ fresh' = TRUE
              /\ pod_name' = name
              /\ reads' = IF static
                          THEN <<[pod |-> name,
                                  container |-> LogContainer(step),
                                  raised |-> raised]>>
                          ELSE <<>>
              /\ lpc' = LogOutcome(trainjob, name, live, raised)
              /\ logs_dict' =
                    IF static /\ LogOutcome(trainjob, name, live, raised) = "returned"
                    THEN DictPut(<<>>, LogKey(step, node_rank),
                                 StaticLog(name, LogContainer(step)))
                    ELSE <<>>
              /\ capacity' = IF live THEN size ELSE 0
              /\ produced' = IF live THEN <<0>> ELSE <<>>
              /\ queue' = IF live THEN <<<<>>>> ELSE <<>>
              /\ finished' = IF live THEN <<FALSE>> ELSE <<>>
              /\ poll_index' = IF live THEN 1 ELSE 0
              /\ taken' = 0
    /\ UNCHANGED <<clusterVars, waitVars, containerLines, lastGet>>

\* A worker takes the next line of its stream and puts it in its queue, or
\* puts None when the stream has ended; it waits while the queue is full.
worker_put ==
    /\ lpc = "following"
    /\ \E i \in DOMAIN queue :
          /\ produced[i] <= containerLines
          /\ ~QueueFull(queue[i], capacity)
          /\ queue' = [queue EXCEPT ![i] =
                          Append(@, IF produced[i] < containerLines
                                    THEN LineItem(LineText(produced[i] + 1))
                                    ELSE EndOfStream)]
          /\ produced' = [produced EXCEPT ![i] = @ + 1]
    /\ UNCHANGED <<clusterVars, job, apiFault, seenRunning, fresh, waitVars,
                   lpc, largs, pod_name, reads, logs_dict,
                   containerLines, capacity, finished, poll_index, taken,
                   lastGet>>

\* One log_queue.get(timeout=1) of the polling loop and what follows it up
\* to the next one.
poll ==
    /\ lpc = "following"
    /\ LET i == poll_index
           key == StepRankKey(largs.step, largs.node_rank)
           got == GetResult(queue[i])
           logline == Head(queue[i])
           fin == FinishedAfterGet(finished, i, got)
           count == IF got = "line" THEN taken + 1 ELSE taken
           passOver == PassOver(got, count)
           next == IF passOver THEN NextIndex(fin, i) ELSE i
       IN  /\ got # "blocked"
           /\ lastGet' = [index |-> i, got |-> got]
           /\ queue' = IF got = "Empty" THEN queue
                       ELSE [queue EXCEPT ![i] = Tail(@)]
           /\ finished' = fin
           /\ logs_dict' = IF got = "line"
                           THEN AppendLine(logs_dict, key, logline.text)
                           ELSE IF got = "None"
                           THEN AtEndOfStream(logs_dict, key)
                           ELSE logs_dict
           /\ taken' = IF passOver THEN 0 ELSE count
           /\ poll_index' = next
           /\ lpc' = IF next = 0 THEN "returned" ELSE "following"
    /\ UNCHANGED <<clusterVars, job, apiFault, seenRunning, fresh, waitVars,
                   largs, pod_name, reads, containerLines, capacity, produced>>

\* The selection loop only asks whether a step is Pending.
LogPhases == {"Pending", "Running"}

\* Listings of valid Pods, and listings of one Pod that lacks some part.
LogPodLists ==
    {podList \in PodLists :
        \A i \in DOMAIN podList : podList[i].phase \in LogPhases}
    \cup {<<[name |-> 1, rjob_name |-> NODE, job_index |-> <<"0">>,
             phase |-> "Running", lacks |-> parts]>> :
            parts \in SUBSET PodParts}

InitLogs ==
    /\ crdStatus = [present |-> FALSE, conditions |-> <<>>]
    /\ specNumNodes = 0
    /\ runtimeNumNodes = MaxNodes
    /\ pods \in LogPodLists
    /\ containerLines \in 0..ShortLog
    /\ job = NoJob
    /\ apiFault = "none"
    /\ seenRunning = FALSE
    /\ fresh = FALSE
    /\ WaitIdle
    /\ LogIdle

NextLogs == get_job_logs \/ worker_put \/ poll

SpecLogs == InitLogs /\ [][NextLogs]_vars

\* The call was made with these arguments.
LogCalled == lpc # "idle"

\* The job has a step that matches the call's arguments and is not Pending.
StepMatched ==
    /\ LogCalled /\ Fetched
    /\ \E i \in DOMAIN job.steps :
          /\ job.steps[i].status # "Pending"
          /\ job.steps[i].name \in
                {largs.step, largs.step \o <<"-">> \o IntToStr(largs.node_rank)}

\* The call made a static read and that read raised.
StaticReadRaised == reads # <<>> /\ reads[1].raised

\* C17: a call without follow whose step matched a step that is not Pending
\* has made exactly one static read, on the Pod of a matching step; when the
\* read returned, the call has returned a mapping with exactly one entry, the
\* text read, under the step name for dataset-initializer and
\* model-initializer and under "{step}-{node_rank}" for every other step.
C17_OneStaticRead ==
    (StepMatched /\ ~largs.follow) =>
        /\ Len(reads) = 1
        /\ \E i \in DOMAIN job.steps :
              /\ job.steps[i].pod_name = reads[1].pod
              /\ job.steps[i].status # "Pending"
        /\ ~reads[1].raised =>
              LET key == IF largs.step \in {DATASET_INITIALIZER, MODEL_INITIALIZER}
                         THEN largs.step
                         ELSE largs.step \o <<"-">> \o IntToStr(largs.node_rank)
              IN  /\ lpc = "returned"
                  /\ DOMAIN logs_dict = {key}
                  /\ logs_dict[key] = StaticLog(reads[1].pod, reads[1].container)

\* C17 witness: the logs of the model-initializer are returned under the
\* key model-initializer.
C17_Witness ==
    /\ lpc = "returned"
    /\ ~largs.follow
    /\ largs.step = MODEL_INITIALIZER
    /\ Len(reads) = 1
    /\ DOMAIN logs_dict = {MODEL_INITIALIZER}

\* C20, as stated: the call has raised RuntimeError only if a static read
\* raised, and then it gave no mapping; with follow set, and when no static
\* read raised, it has not raised RuntimeError.
C20_FatalOnlyOnStaticRead_Stated ==
    /\ lpc = "RuntimeError" => StaticReadRaised
    /\ StaticReadRaised => lpc = "RuntimeError" /\ logs_dict = <<>>
    /\ (LogCalled /\ largs.follow) => lpc # "RuntimeError"

\* C20: the call has raised RuntimeError exactly when its get_job raised
\* RuntimeError (a read of the cluster API failed, or a listed Pod is
\* invalid) or its static read raised, and TimeoutError exactly when its
\* get_job timed out; in both cases it gave no mapping. A call that streams
\* (follow set, step node) makes no static read and, once its get_job
\* returned, raises neither.
C20_FatalCauses ==
    LogCalled =>
        /\ lpc = "RuntimeError" <=>
              \/ apiFault = "RuntimeError"
              \/ apiFault = "none" /\ \E i \in DOMAIN pods : pods[i].lacks # {}
              \/ StaticReadRaised
        /\ lpc = "TimeoutError" <=> apiFault = "TimeoutError"
        /\ lpc \in {"RuntimeError", "TimeoutError"} => logs_dict = <<>>
        /\ (largs.follow /\ largs.step = NODE) => reads = <<>>
        /\ (largs.follow /\ largs.step = NODE /\ Fetched) =>
              lpc \in {"following", "returned"}

\* C20 witness: the call was made with follow set, no static read was made,
\* and it raised RuntimeError because its get_job did.
C20_Witness ==
    /\ lpc = "RuntimeError"
    /\ largs.follow
    /\ reads = <<>>
    /\ job.outcome = "RuntimeError"

(* ------------------------ following one container --------------------- *)

\* Log lengths: none, one line, a full batch, a batch and more.
LineCounts == {0, 1, MaxLines - 1, MaxLines}

InitFollow ==
    /\ crdStatus = [present |-> FALSE, conditions |-> <<>>]
    /\ specNumNodes = 0
    /\ runtimeNumNodes = MaxNodes
    /\ pods = <<[name |-> 1, rjob_name |-> NODE, job_index |-> <<"0">>,
                 phase |-> "Running", lacks |-> {}]>>
    /\ containerLines \in LineCounts
    /\ job = NoJob
    /\ apiFault = "none"
    /\ seenRunning = FALSE
    /\ fresh = FALSE
    /\ WaitIdle
    /\ LogIdle

SpecFollow == InitFollow /\ [][NextLogs]_vars

\* The workers and the polling loop are threads that keep running.
SpecFollowFair == SpecFollow /\ WF_vars(worker_put) /\ WF_vars(poll)

\* The call opened its live streams.
Streaming == finished # <<>>

\* Lines 1..n as the transcript holds them.
RECURSIVE Transcript(_)
Transcript(n) ==
    IF n = 0 THEN <<>> ELSE Transcript(n - 1) \o LineText(n) \o <<"\n">>

\* Items the polling loop has taken from queue i, the sentinel excluded.
LinesTaken(i) ==
    produced[i] - Len(queue[i]) - (IF finished[i] THEN 1 ELSE 0)

ReturnsWhenAllFinished ==
    (Streaming /\ lpc = "returned") =>
        /\ \A i \in DOMAIN finished : finished[i] /\ queue[i] = <<>>
        /\ \A i \in DOMAIN produced : produced[i] = containerLines + 1

\* C16: a following call returns only when every stream is marked finished,
\* and, its worker and its polling loop being scheduled fairly, it does
\* return, whatever the size of the queue and the number of lines: a worker
\* waiting on a full queue never blocks the polling loop.
C16_FollowTerminates ==
    /\ []ReturnsWhenAllFinished
    /\ (lpc = "following") ~> (lpc = "returned")

\* C16 witness: the worker waits on a full queue of size one while the
\* polling loop is in the middle of a pass.
C16_Witness ==
    /\ lpc = "following"
    /\ capacity = 1
    /\ Len(queue[1]) = 1
    /\ produced[1] < containerLines
    /\ taken > 0

(* --------------------- errors and the empty status set ---------------- *)

\* What a re-fetch records when get_job raised.
ErrorNames == {"TimeoutError", "RuntimeError"}

\* The call raised `error`, stopped the watch and gave no Job.
RaisedAfterRelease(error) ==
    /\ wpc = error
    /\ watch = "stopped"
    /\ result = NoJob

\* C21: an error raised while the call is watching, by the re-fetch on an
\* event or by the stream, ends the call: it is the last thing the loop
\* did, the watch is stopped, no Job is returned, and the call has raised
\* TimeoutError for a timeout and RuntimeError for any other exception.
C21_ErrorsEndTheWait ==
    /\ \A i \in DOMAIN fetched :
          fetched[i] \in ErrorNames =>
              i = Len(fetched) /\ RaisedAfterRelease(fetched[i])
    /\ streamError = "TimeoutError" => RaisedAfterRelease("TimeoutError")
    /\ streamError = "Exception" => RaisedAfterRelease("RuntimeError")

\* C21 witness: the re-fetch on the second event timed out; the call raised
\* TimeoutError with the watch stopped, before the stream ended.
C21_Witness ==
    /\ fetched = <<TRAINJOB_CREATED, "TimeoutError">>
    /\ wpc = "TimeoutError"
    /\ watch = "stopped"
    /\ ~ended

\* C30: a call with the empty status set passes validation and never
\* returns a Job: it is watching, or it has raised RuntimeError or
\* TimeoutError; when no read and no stream raised, RuntimeError follows a
\* snapshot that shows Failed and TimeoutError the end of the stream.
C30_EmptyTargetNeverReturns ==
    (wpc # "idle" /\ target = {}) =>
        /\ wpc \in {"watching", "RuntimeError", "TimeoutError"}
        /\ result = NoJob
        /\ (streamError = "none"
            /\ \A i \in DOMAIN fetched : fetched[i] \notin ErrorNames) =>
              /\ wpc = "RuntimeError" =>
                    fetched # <<>> /\ Last(fetched) = TRAINJOB_FAILED
              /\ wpc = "TimeoutError" => ended

\* C30 witness: with the empty set the call saw the job Failed and raised
\* RuntimeError.
C30_Witness ==
    /\ target = {}
    /\ wpc = "RuntimeError"
    /\ fetched # <<>>
    /\ Last(fetched) = TRAINJOB_FAILED

(* ------------------------- get_job keeps no state --------------------- *)

\* The node Pods that are Running now.
RunningNodePods ==
    {i \in DOMAIN pods : pods[i].rjob_name = NODE /\ pods[i].phase = "Running"}

\* C29: what a get_job call returns depends on the cluster it observes
\* only: with the same conditions, Pods and node count it is the same Job
\* whatever earlier calls returned. A job an earlier call returned as
\* Running is returned as Created when, with no condition on the resource,
\* the Running node Pods are not as many as the declared nodes.
C29_GetJobStateless ==
    (fresh /\ apiFault = "none") =>
        /\ job = get_trainjob_from_crd(crdStatus, specNumNodes,
                                       runtimeNumNodes, pods)
        /\ (seenRunning /\ NoConditions
            /\ Cardinality(RunningNodePods)
                  # NumNodes(specNumNodes, runtimeNumNodes)) =>
              job.status = TRAINJOB_CREATED

\* C29 witness: a job returned as Running by an earlier call is returned as
\* Created once both node Pods have Succeeded and no condition is reported.
C29_Witness ==
    /\ fresh /\ Fetched
    /\ seenRunning
    /\ NoConditions
    /\ TwoNodePods("Succeeded", "Succeeded")
    /\ job.num_nodes = 2
    /\ job.status = TRAINJOB_CREATED

(* --------------------------- the polling loop ------------------------- *)

\* C22: the polling loop is never blocked on a queue: while the call
\* follows, its next get can always be made, and a get on a queue that
\* stayed empty ends the pass over that queue with nothing changed: the
\* loop stands at the next queue that is not finished, with a new batch.
C22_EmptyPollMovesOn ==
    /\ lpc = "following" => ENABLED poll
    /\ lastGet.got = "Empty" =>
          /\ lpc = "following"
          /\ taken = 0
          /\ poll_index = NextIndex(finished, lastGet.index)
          /\ ~finished[poll_index]

\* C22 witness: after lines were taken a get found the queue empty; the
\* call still follows and the worker has put the next line since.
C22_Witness ==
    /\ lpc = "following"
    /\ lastGet.got = "Empty"
    /\ LinesTaken(1) > 0
    /\ queue[1] # <<>>
    /\ ~queue[1][1].eos

\* C23, as stated: a get that found the queue empty has the effect of the
\* sentinel on the finished flag of the stream.
C23_EmptyReadFinishes_Stated ==
    lastGet.got = "Empty" => finished[lastGet.index]

\* C23: the polling loop tells an empty read from the sentinel: a get that
\* found the queue empty leaves the finished flag of the stream unset and
\* the call following; a get that returned None sets the flag; a flag is
\* set only once the sentinel of its stream has been taken.
C23_EmptyReadIsNotTheSentinel ==
    /\ lastGet.got = "Empty" =>
          ~finished[lastGet.index] /\ lpc = "following"
    /\ lastGet.got = "None" => finished[lastGet.index]
    /\ \A i \in DOMAIN finished :
          finished[i] =>
              produced[i] = containerLines + 1 /\ queue[i] = <<>>

\* C23 witness: a get found the queue empty, the stream is not finished;
\* the worker has put the sentinel since and it is still in the queue.
C23_Witness ==
    /\ lastGet.got = "Empty"
    /\ ~finished[lastGet.index]
    /\ queue[lastGet.index] = <<EndOfStream>>

\* C24: a pass over a queue takes fewer than BatchSize lines unless it ends
\* with the line that fills the batch; a pass that ended with a line took a
\* whole batch, and the loop then stands at the next queue that is not
\* finished; a finished queue is never polled.
C24_BatchPerPass ==
    Streaming =>
        /\ taken \in 0..(BatchSize - 1)
        /\ lpc = "following" => ~finished[poll_index]
        /\ lastGet.got = "line" =>
              /\ lpc = "following"
              /\ taken = 0 =>
                    /\ LinesTaken(lastGet.index) >= BatchSize
                    /\ poll_index = NextIndex(finished, lastGet.index)
              /\ taken # 0 => poll_index = lastGet.index

\* C24 witness: the pass ended on the fiftieth line while the container had
\* written more.
C24_Witness ==
    /\ lpc = "following"
    /\ lastGet.got = "line"
    /\ taken = 0
    /\ LinesTaken(1) = BatchSize
    /\ containerLines > BatchSize

\* C28: a following call whose stream ended without a line returns the
\* empty mapping: the sentinel creates no entry; a stream that gave a line
\* has its entry.
C28_SilentSourceHasNoEntry ==
    (Streaming /\ lpc = "returned") =>
        LET key == largs.step \o <<"-">> \o IntToStr(largs.node_rank)
        IN  /\ containerLines = 0 => logs_dict = <<>>
            /\ containerLines > 0 => DOMAIN logs_dict = {key}

\* C28 witness: the call returned the empty mapping after taking the
\* sentinel of a stream that had no line.
C28_Witness ==
    /\ Streaming
    /\ lpc = "returned"
    /\ lastGet.got = "None"
    /\ containerLines = 0
    /\ DOMAIN logs_dict = {}

\* Queue i holds, in the order written, the last items its worker has put.
QueueIsTailOfStream(i) ==
    \A k \in 1..Len(queue[i]) :
        LET n == produced[i] - Len(queue[i]) + k
        IN  queue[i][k] = IF n <= containerLines THEN LineItem(LineText(n))
                          ELSE EndOfStream

\* C26: a queue never holds more items than its size, which does not change
\* during the call; a worker whose queue is full puts nothing until the
\* polling loop has taken an item, and the item it waits with is put later:
\* the queue holds the items written and not yet taken, none left out.
C26_Backpressure ==
    /\ [](Streaming =>
            /\ capacity \in 1..MaxCapacity
            /\ \A i \in DOMAIN queue :
                  /\ Len(queue[i]) <= capacity
                  /\ QueueIsTailOfStream(i))
    /\ [][lpc = "following" =>
            /\ capacity' = capacity
            /\ \A i \in DOMAIN queue :
                  Len(queue[i]) = capacity =>
                      /\ produced'[i] = produced[i]
                      /\ queue'[i] \in {queue[i], Tail(queue[i])}]_vars

\* C26 witness: the queue is full of lines and the container has written
\* more than the worker has put.
C26_Witness ==
    /\ lpc = "following"
    /\ capacity = MaxCapacity
    /\ Len(queue[1]) = capacity
    /\ produced[1] < containerLines

(* ----------------------- which Pod, which kind of read ----------------- *)

\* The names a step must have to be selected by the call.
WantedNames ==
    {largs.step, largs.step \o <<"-">> \o IntToStr(largs.node_rank)}

\* C27: a call whose get_job returned reads only the Pod of a step that is
\* not Pending and is named step or "{step}-{node_rank}"; when the job has
\* no such step the call has returned the empty mapping, with no Pod
\* selected, no log read, no stream opened and no error.
C27_OnlyMatchingStepIsRead ==
    (LogCalled /\ Fetched) =>
        /\ ~StepMatched =>
              /\ lpc = "returned"
              /\ logs_dict = <<>>
              /\ pod_name = 0
              /\ reads = <<>>
              /\ ~Streaming
        /\ StepMatched =>
              /\ \E i \in DOMAIN job.steps :
                    /\ job.steps[i].pod_name = pod_name
                    /\ job.steps[i].status # "Pending"
                    /\ job.steps[i].name \in WantedNames
              /\ \A k \in DOMAIN reads : reads[k].pod = pod_name
              /\ reads # <<>> \/ Streaming

\* C27 witness: a following call for node rank 0 found the Pod of node-0
\* Pending and returned the empty mapping without reading.
C27_Witness ==
    /\ lpc = "returned"
    /\ Fetched
    /\ largs = [step |-> NODE, node_rank |-> 0, follow |-> TRUE]
    /\ \E i \in DOMAIN job.steps :
          /\ job.steps[i].name = StepRankKey(NODE, 0)
          /\ job.steps[i].status = "Pending"
    /\ logs_dict = <<>>
    /\ reads = <<>>
    /\ ~Streaming

\* C25: a call for a step other than node opens no stream whatever follow
\* is: it makes one static read when a step matched and none otherwise, and
\* its result is told by the step, the rank and the read alone. A call with
\* follow for the step node that matched makes no static read, before or
\* after the stream: what it returns is the transcript of the lines streamed.
C25_FollowOnlyForNode ==
    (LogCalled /\ Fetched) =>
        /\ largs.step # NODE =>
              /\ ~Streaming
              /\ Len(reads) = IF StepMatched THEN 1 ELSE 0
              /\ lpc = IF StaticReadRaised THEN "RuntimeError" ELSE "returned"
              /\ logs_dict =
                    IF StepMatched /\ ~StaticReadRaised
                    THEN DictPut(<<>>, LogKey(largs.step, largs.node_rank),
                                 StaticLog(pod_name, LogContainer(largs.step)))
                    ELSE <<>>
        /\ (largs.follow /\ largs.step = NODE /\ StepMatched) =>
              /\ Streaming
              /\ reads = <<>>
              /\ lpc \in {"following", "returned"}
              /\ lpc = "returned" =>
                    logs_dict =
                        IF containerLines = 0 THEN <<>>
                        ELSE DictPut(<<>>,
                                     StepRankKey(NODE, largs.node_rank),
                                     Transcript(containerLines))

\* C25 witness: a call with follow for the dataset initializer returned the
\* static log of its Pod, read once, with no stream opened.
C25_Witness ==
    /\ lpc = "returned"
    /\ largs.follow
    /\ largs.step = DATASET_INITIALIZER
    /\ Len(reads) = 1
    /\ DOMAIN logs_dict = {DATASET_INITIALIZER}
    /\ ~Streaming

\* A call with follow for the step node returned the streamed transcript.
C25_StreamedResultReached ==
    /\ lpc = "returned"
    /\ largs.follow
    /\ largs.step = NODE
    /\ Streaming
    /\ containerLines > 0
    /\ reads = <<>>

=============================================================================
